---- MODULE Spec2Model ----
(***************************************************************************)
(* Model of opengate/actors/actoroutput.py: one ActorOutputImage (an       *)
(* ActorOutputUsingDataItemContainer) owned by a dose actor, driven by the *)
(* simulation engine (store_data / end_of_run / end_of_simulation / close) *)
(* and queried by analysis code (get_data, collect_data, get_output_path,  *)
(* write_data).                                                            *)
(*                                                                         *)
(* Python strings are sequences of one-character strings, so that parsing  *)
(* (int(which)) and formatting (f"run{run_index:04f}") are computed.       *)
(* DataItemContainer objects live in a heap (containers) and are referred  *)
(* to by identity, so that two references to one object are visible.       *)
(***************************************************************************)
EXTENDS Integers, Sequences, FiniteSets, TLC

\* ---------------------------------------------------------------- bounds
MaxRun == 1          \* run indices are 0..MaxRun
VecLen == 2          \* number of voxels of a payload ([v]*N)

Runs == 0..MaxRun

\* ------------------------------------------------------- python strings
Digits == <<"0", "1", "2", "3", "4", "5", "6", "7", "8", "9">>

IsDigit(c) == \E i \in 1..10 : Digits[i] = c

DigitVal(c) == (CHOOSE i \in 1..10 : Digits[i] = c) - 1

RECURSIVE ParseDigits(_)
ParseDigits(s) ==
    IF Len(s) = 0 THEN 0
    ELSE 10 * ParseDigits(SubSeq(s, 1, Len(s) - 1)) + DigitVal(s[Len(s)])

RECURSIVE IntToStr(_)
IntToStr(n) ==
    IF n < 10 THEN <<Digits[n + 1]>>
    ELSE IntToStr(n \div 10) \o <<Digits[(n % 10) + 1]>>

RECURSIVE ZeroPad(_, _)
ZeroPad(s, width) == IF Len(s) >= width THEN s ELSE ZeroPad(<<"0">> \o s, width)

\* None, as a value of a string-typed attribute
NoneVal == <<"<None>">>

\* the `which` selectors: a python int or a python str
IntTok(n) == [kind |-> "int", n |-> n, s |-> <<>>]
StrTok(s) == [kind |-> "str", n |-> 0, s |-> s]

MERGED   == <<"m", "e", "r", "g", "e", "d">>
ALL      == <<"a", "l", "l">>
ALL_RUNS == <<"a", "l", "l", "_", "r", "u", "n", "s">>
BOGUS    == <<"b", "o", "g", "u", "s">>
AUTO     == <<"a", "u", "t", "o">>

IsStr(which, s) == which.kind = "str" /\ which.s = s

\* int(which): ok = FALSE stands for ValueError
PyInt(which) ==
    IF which.kind = "int" THEN [ok |-> TRUE, n |-> which.n]
    ELSE IF Len(which.s) > 0 /\ \A i \in 1..Len(which.s) : IsDigit(which.s[i])
         THEN [ok |-> TRUE, n |-> ParseDigits(which.s)]
         ELSE [ok |-> FALSE, n |-> 0]

\* format(run_index, "04f") for an int: float presentation, precision 6,
\* zero-padded to a minimum width of 4
Format04f(n) ==
    ZeroPad(IntToStr(n) \o <<".">> \o <<"0", "0", "0", "0", "0", "0">>, 4)

RunSuffix(run_index) == <<"r", "u", "n">> \o Format04f(run_index)

\* ------------------------------------------------ external collaborators
OutputDir == <<"o", "u", "t", "/">>

\* Simulation.get_output_path: relative filename against the output folder
SimulationGetOutputPath(filename) == OutputDir \o filename

RECURSIVE LastIndexOf(_, _)
LastIndexOf(s, c) ==
    IF Len(s) = 0 THEN 0
    ELSE IF s[Len(s)] = c THEN Len(s)
    ELSE LastIndexOf(SubSeq(s, 1, Len(s) - 1), c)

\* utility.insert_suffix_before_extension: name.ext + s -> name_s.ext,
\* a None or empty suffix leaves the path as it is
insert_suffix_before_extension(path, suffix) ==
    IF suffix = NoneVal \/ suffix = <<>> THEN path
    ELSE LET slash == LastIndexOf(path, "/")
             dot   == LastIndexOf(path, ".")
             cut   == IF dot > slash + 1 THEN dot - 1 ELSE Len(path)
         IN  SubSeq(path, 1, cut) \o <<"_">> \o suffix
                 \o SubSeq(path, cut + 1, Len(path))

\* --------------------------------------------------- owning actor, class
OutputName        == <<"e", "d", "e", "p">>
ActorTypeName     == <<"D", "o", "s", "e", "A", "c", "t", "o", "r">>
ActorName         == <<"d", "o", "s", "e">>
DoseMhd           == <<"d", "o", "s", "e", ".", "m", "h", "d">>

UpperLetters == <<"A", "D">>
LowerLetters == <<"a", "d">>

\* str.lower()
Lower(s) ==
    [i \in 1..Len(s) |->
        IF \E j \in 1..Len(UpperLetters) : UpperLetters[j] = s[i]
        THEN LowerLetters[CHOOSE j \in 1..Len(UpperLetters) : UpperLetters[j] = s[i]]
        ELSE s[i]]

\* ---------------------------------------------------------------- payloads
Vec(v) == [i \in 1..VecLen |-> v]
\* [1.0]*N and a payload whose voxels differ, [3.0, 1.0, ...]
MixedVec == [i \in 1..VecLen |-> IF i = 1 THEN 3 ELSE 1]
RawPayloads == {Vec(1), MixedVec}

VecAdd(a, b) == [i \in 1..VecLen |-> a[i] + b[i]]

\* ------------------------------------------------ insertion-ordered dicts
HasKey(d, k) == \E i \in 1..Len(d) : d[i].k = k
Get(d, k)    == d[CHOOSE i \in 1..Len(d) : d[i].k = k].v
\* the entry keeps the container it has
Put_keep(d, k, v) == IF HasKey(d, k) THEN d ELSE Append(d, [k |-> k, v |-> v])

Put(d, k, v) ==
    IF HasKey(d, k)
    THEN [i \in 1..Len(d) |-> IF d[i].k = k THEN [k |-> k, v |-> v] ELSE d[i]]
    ELSE Append(d, [k |-> k, v |-> v])
Pop(d, k)    == SelectSeq(d, LAMBDA e : e.k # k)
Values(d)    == [i \in 1..Len(d) |-> d[i].v]

\* ------------------------------------------------------------------ state
VARIABLES
    cls,                   \* the class of the output
    keep_data_in_memory,   \* user info
    keep_data_per_run,     \* user info
    auto_merge,            \* user info
    output_filename,       \* user info: a string or NoneVal
    data_write_config,     \* user info: slot key -> suffix, write_to_disk
    active,                \* user info, guarded by its setter hook
    can_be_deactivated,    \* __can_be_deactivated__
    warnings,              \* what exception.warning() was called with
    data_per_run,          \* dict run index -> container (by identity)
    merged_data,           \* container (by identity) or None
    containers,            \* heap: identity -> payload of the container
    disk,                  \* files written: path and content
    phase,                 \* created, initialized, ended, closed
    terminated,            \* exception.fatal() has ended the process
    last,                  \* the last call and how it returned
    stored,                \* history: run index -> raw payload last stored
    finalized,             \* history: run indices in end_of_run order
    merged_stored          \* history: store_data("merged", ...) happened

userinfo == <<cls, keep_data_in_memory, keep_data_per_run, auto_merge,
              data_write_config, can_be_deactivated>>
data     == <<data_per_run, merged_data, containers>>
history  == <<stored, finalized, merged_stored>>
vars     == <<cls, keep_data_in_memory, keep_data_per_run, auto_merge, output_filename,
              data_write_config, active, can_be_deactivated, warnings,
              data_per_run, merged_data, containers, disk, phase, terminated, last,
              stored, finalized, merged_stored>>

None == 0       \* merged_data is None

NoTok   == StrTok(<<>>)
NoItem  == StrTok(NoneVal)      \* item=None
AllItem == StrTok(<<"a", "l", "l">>)      \* item="all"

\* no call of the same kind came right before
NoCall == [res |-> "none", paths |-> <<>>, auto |-> FALSE]

\* a call and how it returned: paths (get_output_path), ids and identifiers
\* (collect_data), val (get_data, store_data, and the data_write_config that
\* initialize of ActorOutputRoot found); auto: the call found
\* output_filename at "auto"; before: the outcome of the call right before
\* when it was the same call of get_output_path; arg: the type of what was
\* passed to store_data, or "return_identifier" when collect_data returns
\* the identifiers too; constructed: the call constructed a new container
Call(op, which, res) ==
    [op |-> op, which |-> which, item |-> NoItem, res |-> res,
     paths |-> <<>>, ids |-> <<>>, identifiers |-> <<>>, val |-> <<>>,
     auto |-> FALSE, before |-> NoCall, arg |-> "none", constructed |-> FALSE]

\* the default data_write_config of a single-item container class
SingleItemConfig(w) == <<[k |-> IntTok(0), v |-> [suffix |-> NoneVal, write_to_disk |-> w]]>>

\* a data_write_config of two slots with a suffix each, as the user sets it
\* or a container class of several items supplies it
EDEP == <<"e", "d", "e", "p">>
UNC  == <<"u", "n", "c">>
TwoItemConfig(w) ==
    <<[k |-> StrTok(EDEP), v |-> [suffix |-> EDEP, write_to_disk |-> w]],
      [k |-> StrTok(UNC),  v |-> [suffix |-> UNC,  write_to_disk |-> FALSE]]>>

SingleItemConfigs == {SingleItemConfig(w) : w \in BOOLEAN}
PathConfigs       == SingleItemConfigs \cup {TwoItemConfig(w) : w \in BOOLEAN}

Filenames == {AUTO, <<>>, NoneVal, DoseMhd}

\* the object after construction and the user's settings
Construct(classes, filenames, configs) ==
    /\ cls \in classes
    /\ keep_data_in_memory \in BOOLEAN
    /\ keep_data_per_run \in BOOLEAN
    /\ auto_merge \in BOOLEAN
    /\ output_filename \in filenames
    /\ data_write_config \in configs
    /\ active = TRUE
    /\ can_be_deactivated = FALSE
    /\ warnings = {}
    /\ data_per_run = <<>>
    /\ merged_data = None
    /\ containers = [i \in {} |-> <<>>]
    /\ disk = {}
    /\ phase = "created"
    /\ terminated = FALSE
    /\ last = Call("__init__", NoTok, "ok")
    /\ stored = [r \in {} |-> <<>>]
    /\ finalized = <<>>
    /\ merged_stored = FALSE

\* output_filename is left at its default, "auto"
Init == Construct({"ActorOutputImage"}, {AUTO}, SingleItemConfigs)

\* output_filename is set by the user
PathInit == Construct({"ActorOutputImage"}, Filenames, PathConfigs)

\* the classes that derive from ActorOutputBase directly
BaseClasses == {"ActorOutputRoot", "ActorOutputCppImage"}

\* an ActorOutputRoot or ActorOutputCppImage
BaseInit == Construct(BaseClasses, Filenames, PathConfigs)

Alive == ~terminated

\* self.default_suffix, set by __init__ of the concrete class
default_suffix ==
    IF cls = "ActorOutputImage" THEN <<"m", "h", "d">> ELSE <<"r", "o", "o", "t">>

\* f"{name}_from_{actor type, lower case}_{actor name}.{default_suffix}"
AutoFilename ==
    OutputName \o <<"_", "f", "r", "o", "m", "_">> \o Lower(ActorTypeName)
        \o <<"_">> \o ActorName \o <<".">> \o default_suffix

\* ------------------------------------------------------------ output paths
AnyWriteToDisk(cfg) == \E i \in 1..Len(cfg) : cfg[i].v.write_to_disk

\* ActorOutputBase.initialize_output_filename: the outcome and the new
\* value of self.output_filename
\* "auto" is left as it is
initialize_output_filename_keep_auto(fname, cfg) ==
    IF (fname = <<>> \/ fname = NoneVal) /\ AnyWriteToDisk(cfg)
    THEN [res |-> "fatal", fname |-> fname]
    ELSE [res |-> "ok", fname |-> fname]

initialize_output_filename(fname, cfg) ==
    IF (fname = <<>> \/ fname = NoneVal) /\ AnyWriteToDisk(cfg)
    THEN [res |-> "fatal", fname |-> fname]
    ELSE IF fname = AUTO
         THEN [res |-> "ok", fname |-> AutoFilename]
         ELSE [res |-> "ok", fname |-> fname]

NoArg == <<[k |-> NoTok, v |-> NoneVal]>>    \* output_filename=None

\* ActorOutputBase.get_output_path(which, output_filename): arg is NoArg
\* or a Box of filenames; the result is a Box of paths (res "box"), a
\* single path (res "ok"), None, or the way the call failed.
\* Lines 194-199: a Box of several paths, the only path, or None
PathResult(full, fname) ==
    [res   |-> IF Len(full) > 1 THEN "box" ELSE IF Len(full) = 1 THEN "ok" ELSE "None",
     paths |-> full, fname |-> fname]

Failed(res, fname) == [res |-> res, paths |-> <<>>, fname |-> fname]

\* Lines 187-192: the run suffix goes into every path
RunQualified(box, run_index) ==
    [i \in 1..Len(box) |->
        [k |-> box[i].k,
         v |-> insert_suffix_before_extension(box[i].v, RunSuffix(run_index))]]

\* Lines 175-192, ri being int(which)
PathsOfWhich(which, ri, box, fname) ==
    IF IsStr(which, MERGED) THEN PathResult(box, fname)
    ELSE IF ~ri.ok THEN Failed("fatal", fname)
    ELSE PathResult(RunQualified(box, ri.n), fname)

\* Lines 163-173: None has no items()
FullDataPath(arg, fname) ==
    IF arg = NoArg
    THEN <<[k |-> IntTok(0), v |-> SimulationGetOutputPath(fname)]>>
    ELSE [i \in 1..Len(arg) |->
            [k |-> arg[i].k, v |-> SimulationGetOutputPath(arg[i].v)]]

PathsAfterInitialize(which, arg, ini) ==
    IF ini.res = "fatal" THEN Failed("fatal", ini.fname)
    ELSE IF arg = NoArg /\ ini.fname = NoneVal THEN Failed("AttributeError", ini.fname)
    ELSE PathsOfWhich(which, PyInt(which), FullDataPath(arg, ini.fname), ini.fname)

\* the paths are built from the filename read before it is resolved
BaseGetOutputPath_stale(which, arg, fname, cfg) ==
    [PathsAfterInitialize(which, arg,
                          [initialize_output_filename(fname, cfg) EXCEPT !.fname = fname])
        EXCEPT !.fname = initialize_output_filename(fname, cfg).fname]

BaseGetOutputPath(which, arg, fname, cfg) ==
    PathsAfterInitialize(which, arg, initialize_output_filename(fname, cfg))

\* ActorOutputUsingDataItemContainer._get_suffix_for_item
HasSuffixForItem(identifier, cfg) == HasKey(cfg, identifier)
get_suffix_for_item(identifier, cfg) == Get(cfg, identifier).suffix

\* ActorOutputUsingDataItemContainer.compose_output_path_to_item
compose_output_path_to_item(output_path, item, cfg) ==
    insert_suffix_before_extension(output_path, get_suffix_for_item(item, cfg))

\* ActorOutputUsingDataItemContainer.get_output_filename(item)
get_output_filename(item, fname, cfg) ==
    IF item = AllItem
    THEN [i \in 1..Len(cfg) |->
            [k |-> cfg[i].k, v |-> compose_output_path_to_item(fname, cfg[i].k, cfg)]]
    ELSE <<[k |-> IntTok(0), v |-> compose_output_path_to_item(fname, item, cfg)]>>

\* ActorOutputUsingDataItemContainer.get_output_path(**kwargs), called as
\* get_output_path(which=which, item=item)
\* (the suffix of the item is looked up before the path is touched)
ContainerGetOutputPath(which, item, fname, cfg) ==
    IF item # NoItem /\ item # AllItem /\ ~HasSuffixForItem(item, cfg)
    THEN Failed("fatal", fname)
    ELSE IF item # NoItem /\ fname = NoneVal THEN Failed("TypeError", fname)
    ELSE BaseGetOutputPath(which,
                           IF item = NoItem THEN NoArg
                           ELSE get_output_filename(item, fname, cfg),
                           fname, cfg)

\* a call of get_output_path: the method takes keyword arguments only, so
\* a call that passes `which` by position raises TypeError before the body
CallGetOutputPath(positional, which, item, fname, cfg) ==
    IF positional
    THEN Failed("TypeError", fname)
    ELSE ContainerGetOutputPath(which, item, fname, cfg)

\* ------------------------------------------------------------- containers
\* identity of a newly constructed container
NewId(h) == CHOOSE i \in 1..(Cardinality(DOMAIN h) + 1) :
                i \notin DOMAIN h /\ \A j \in 1..(i - 1) : j \in DOMAIN h

Alloc(h, payload) ==
    [i \in DOMAIN h \cup {NewId(h)} |-> IF i \in DOMAIN h THEN h[i] ELSE payload]

\* containers no reference is left to are freed; identities are renamed
\* in the order of data_per_run, then merged_data (identity itself carries
\* no information, only which references share it)
Refs(dpr, m) == Values(dpr) \o (IF m = None THEN <<>> ELSE <<m>>)
FirstRef(refs, id) == CHOOSE i \in 1..Len(refs) :
                          refs[i] = id /\ \A j \in 1..(i - 1) : refs[j] # id
Rename(refs, id) ==
    IF id = None THEN None
    ELSE Cardinality({FirstRef(refs, refs[j]) : j \in 1..FirstRef(refs, id)})
Collect(h, dpr, m) ==
    LET refs == Refs(dpr, m)
        live == {refs[i] : i \in 1..Len(refs)}
    IN  [data_per_run |-> [i \in 1..Len(dpr) |->
                              [k |-> dpr[i].k, v |-> Rename(refs, dpr[i].v)]],
         merged_data  |-> Rename(refs, m),
         containers   |-> [n \in 1..Cardinality(live) |->
                              h[CHOOSE id \in live : Rename(refs, id) = n]]]

SetData(d) ==
    /\ data_per_run' = d.data_per_run
    /\ merged_data' = d.merged_data
    /\ containers' = d.containers

\* DataItemContainer.inplace_merge_with: accumulates other into self
inplace_merge_with(h, self, other) ==
    [h EXCEPT ![self] = VecAdd(h[self], h[other])]

RECURSIVE MergeLoop(_, _, _)
MergeLoop(h, m, rest) ==
    IF Len(rest) = 0 THEN h
    ELSE MergeLoop(inplace_merge_with(h, m, Head(rest)), m, Tail(rest))

\* merge_data (merge_method is "sum"): the first element of the list is
\* merged into and returned
\* the loop over list_of_data[1:] is skipped
merge_data_first_only(h, list_of_data) == [heap |-> h, id |-> list_of_data[1]]

merge_data(h, list_of_data) ==
    [heap |-> MergeLoop(h, list_of_data[1], Tail(list_of_data)),
     id   |-> list_of_data[1]]

\* a merge that forgets what was merged before
merge_into_merged_data_overwrite(h, m, d) == [heap |-> h, id |-> d]

merge_into_merged_data(h, m, d) ==
    IF m = None THEN [heap |-> h, id |-> d]
    ELSE merge_data(h, <<m, d>>)

\* ---------------------------------------------------------------- actions
Tokens == {IntTok(r) : r \in Runs} \cup {StrTok(IntToStr(r)) : r \in Runs}
              \cup {StrTok(MERGED), StrTok(ALL), StrTok(ALL_RUNS), StrTok(BOGUS)}

\* the engine has run the simulation: analysis code queries the output
Finished == Alive /\ phase \in {"ended", "closed"}

FinalizedRuns == {finalized[i] : i \in 1..Len(finalized)}

\* python values assigned to "active": True, False, 0, 1, "", "x", None
BoolTok(b) == [kind |-> "bool", n |-> IF b THEN 1 ELSE 0, s |-> <<>>]
ActiveValues == {BoolTok(TRUE), BoolTok(FALSE), IntTok(0), IntTok(1),
                 StrTok(<<>>), StrTok(<<"x">>), StrTok(NoneVal)}

\* bool(value)
PyBool(value) ==
    IF value.kind \in {"bool", "int"} THEN value.n # 0
    ELSE value.s # <<>> /\ value.s # NoneVal

\* the hook takes the value as it is
setter_hook_active_unguarded(deactivatable, value) ==
    [active |-> PyBool(value), warned |-> FALSE]

\* _setter_hook_active: the value "active" takes, and whether warning() is
\* called
setter_hook_active(deactivatable, value) ==
    IF deactivatable = TRUE
    THEN [active |-> PyBool(value), warned |-> FALSE]
    ELSE [active |-> TRUE, warned |-> PyBool(value) # TRUE]

\* the "active" user info is set: the setter hook gives the value it takes
SetActive(value) ==
    /\ Alive
    /\ \E hook \in {setter_hook_active(can_be_deactivated, value)} :
           /\ active' = hook.active
           /\ warnings' = IF hook.warned THEN warnings \cup {"cannot be deactivated"}
                          ELSE warnings
    /\ last' = Call("active", value, "ok")
    /\ UNCHANGED <<userinfo, output_filename, data, disk, phase, terminated, history>>

\* the actor that creates the output sets __can_be_deactivated__
AllowDeactivation ==
    /\ Alive /\ phase = "created" /\ ~can_be_deactivated
    /\ can_be_deactivated' = TRUE
    /\ last' = Call("__can_be_deactivated__", NoTok, "ok")
    /\ UNCHANGED <<cls, keep_data_in_memory, keep_data_per_run, auto_merge,
                   data_write_config, output_filename, active, warnings, data, disk, phase, terminated,
                   history>>

\* ActorOutputBase.initialize
Initialize ==
    /\ Alive /\ phase = "created"
    /\ \E ini \in {initialize_output_filename(output_filename, data_write_config)} :
           /\ output_filename' = ini.fname
           /\ phase' = IF ini.res = "fatal" THEN phase ELSE "initialized"
           /\ terminated' = (ini.res = "fatal")
           /\ last' = Call("initialize", NoTok, ini.res)
    /\ UNCHANGED <<userinfo, active, warnings, data, disk, history>>

\* what a caller passes to store_data after `which`: raw user data, or an
\* instance of the container class that holds it
RawArg(p)       == [type |-> "raw", payload |-> p]
ContainerArg(p) == [type |-> "container", payload |-> p]

\* *data: the tuple of the positional arguments
ArgsTuple(arg) == [type |-> "tuple", elems |-> <<arg>>]

\* isinstance(data, self.data_container_class)
IsContainerInstance(x) == x.type = "container"

\* store_data(which, *data): data is the tuple of the arguments; what is not
\* an instance of the container class is wrapped into a new container (a
\* container built from a tuple that holds a container is taken to hold
\* that container's payload)
StoreData(which, arg) ==
    /\ Alive /\ phase = "initialized"
    /\ PyInt(which).ok => ~\E i \in 1..Len(finalized) : finalized[i] = PyInt(which).n
    /\ LET tuple     == ArgsTuple(arg)
           wrap      == ~IsContainerInstance(tuple)
           raw       == IF wrap THEN tuple.elems[1].payload ELSE tuple.payload
           h         == Alloc(containers, raw)
           data_item == NewId(containers)
           ri        == PyInt(which)
           call      == [Call("store_data", which, "ok")
                            EXCEPT !.val = raw, !.arg = arg.type, !.constructed = wrap]
       IN  IF IsStr(which, MERGED)
           THEN /\ SetData(Collect(h, data_per_run, data_item))
                /\ merged_stored' = TRUE
                /\ last' = call
                /\ UNCHANGED <<stored, terminated>>
           ELSE IF ~ri.ok
           THEN /\ terminated' = TRUE
                /\ last' = [Call("store_data", which, "fatal")
                               EXCEPT !.arg = arg.type, !.constructed = wrap]
                /\ UNCHANGED <<data, stored, merged_stored>>
           ELSE /\ SetData(Collect(h, Put(data_per_run, ri.n, data_item), merged_data))
                /\ stored' = [r \in DOMAIN stored \cup {ri.n} |->
                                IF r = ri.n THEN raw ELSE stored[r]]
                /\ last' = call
                /\ UNCHANGED <<merged_stored, terminated>>
    /\ UNCHANGED <<userinfo, output_filename, active, warnings, disk, phase, finalized>>

\* DataItemContainer.create_empty_image: the container allocates its image
allocate_image(h, id) == [h EXCEPT ![id] = [i \in 1..VecLen |-> 0]]

ContainerIsCreated_always(run_index) == TRUE

\* create_empty_image: "if run_index not in self.data_per_run"
ContainerIsCreated(run_index) == ~HasKey(data_per_run, run_index)

\* ActorOutputImage.create_empty_image(run_index, size, spacing), called by
\* the actor for a run that has not ended
CreateEmptyImage(run_index) ==
    /\ Alive /\ phase = "initialized"
    /\ ~\E i \in 1..Len(finalized) : finalized[i] = run_index
    /\ LET created == ContainerIsCreated(run_index)
           h       == IF created THEN Alloc(containers, <<>>) ELSE containers
           dpr     == IF created THEN Put(data_per_run, run_index, NewId(containers))
                      ELSE data_per_run
       IN  /\ SetData(Collect(allocate_image(h, Get(dpr, run_index)), dpr, merged_data))
           /\ stored' = [r \in DOMAIN stored \cup {run_index} |->
                           IF r = run_index THEN [i \in 1..VecLen |-> 0] ELSE stored[r]]
           /\ last' = [Call("create_empty_image", IntTok(run_index), "ok")
                          EXCEPT !.constructed = created]
    /\ UNCHANGED <<userinfo, output_filename, active, warnings, disk, phase,
                   terminated, finalized, merged_stored>>

RunIsMerged_always == TRUE

\* end_of_run: "if self.auto_merge is True"
RunIsMerged == auto_merge = TRUE

\* end_of_run: "if self.keep_data_per_run is False"
RunIsDropped == keep_data_per_run = FALSE

DataIsDropped_never == FALSE

\* close: "if self.keep_data_in_memory is False"
DataIsDropped == keep_data_in_memory = FALSE

\* end_of_run(run_index), called by the engine once per run
EndOfRun(run_index) ==
    /\ Alive /\ phase = "initialized"
    /\ ~\E i \in 1..Len(finalized) : finalized[i] = run_index
    /\ LET present == HasKey(data_per_run, run_index)
           m       == IF RunIsMerged /\ present
                      THEN merge_into_merged_data(containers, merged_data,
                                                  Get(data_per_run, run_index))
                      ELSE [heap |-> containers, id |-> merged_data]
       IN  IF ~present /\ (RunIsMerged \/ RunIsDropped)
           THEN /\ last' = Call("end_of_run", IntTok(run_index), "KeyError")
                /\ UNCHANGED <<data, finalized>>
           ELSE /\ SetData(Collect(m.heap,
                                    IF RunIsDropped THEN Pop(data_per_run, run_index)
                                    ELSE data_per_run,
                                    m.id))
                /\ finalized' = IF present THEN Append(finalized, run_index)
                                ELSE finalized
                /\ last' = Call("end_of_run", IntTok(run_index), "ok")
    /\ UNCHANGED <<userinfo, output_filename, active, warnings, disk, phase,
                   terminated, stored, merged_stored>>

\* ActorOutputBase.close
Close ==
    /\ Alive /\ phase = "ended"
    /\ IF DataIsDropped
       THEN /\ data_per_run' = <<>>
            /\ merged_data' = None
            /\ containers' = [i \in {} |-> <<>>]
       ELSE UNCHANGED data
    /\ phase' = "closed"
    /\ last' = Call("close", NoTok, "ok")
    /\ UNCHANGED <<userinfo, output_filename, active, warnings, disk, terminated, history>>

\* ------------------------------------------------------------------ reads
\* get_data(which, item=None) through get_data_container
get_data(which) ==
    LET ri == PyInt(which)
    IN  IF IsStr(which, MERGED)
        THEN IF merged_data = None THEN [res |-> "None", val |-> <<>>]
             ELSE [res |-> "ok", val |-> containers[merged_data]]
        ELSE IF ~ri.ok THEN [res |-> "fatal", val |-> <<>>]
        ELSE IF HasKey(data_per_run, ri.n)
        THEN [res |-> "ok", val |-> containers[Get(data_per_run, ri.n)]]
        ELSE [res |-> "fatal", val |-> <<>>]

GetData(which) ==
    /\ Finished
    /\ \E r \in {get_data(which)} :
           /\ last' = [Call("get_data", which, r.res) EXCEPT !.val = r.val]
           /\ terminated' = (r.res = "fatal")
           /\ UNCHANGED phase
    /\ UNCHANGED <<userinfo, output_filename, active, warnings, data, disk, history>>

\* list(self.data_per_run.keys())
RunKeys(d) == [i \in 1..Len(d) |-> IntTok(d[i].k)]

\* "all" with the merged data ahead of the runs
collect_data_merged_first(which) ==
    LET ri == PyInt(which)
    IN  IF IsStr(which, MERGED)
        THEN [res |-> "ok", ids |-> <<merged_data>>, identifiers |-> <<StrTok(MERGED)>>]
        ELSE IF IsStr(which, ALL_RUNS)
        THEN [res |-> "ok", ids |-> Values(data_per_run),
              identifiers |-> RunKeys(data_per_run)]
        ELSE IF IsStr(which, ALL)
        THEN [res |-> "ok", ids |-> <<merged_data>> \o Values(data_per_run),
              identifiers |-> <<StrTok(MERGED)>> \o RunKeys(data_per_run)]
        ELSE IF ~ri.ok THEN [res |-> "fatal", ids |-> <<>>, identifiers |-> <<>>]
        ELSE IF HasKey(data_per_run, ri.n)
        THEN [res |-> "ok", ids |-> <<Get(data_per_run, ri.n)>>,
              identifiers |-> <<IntTok(ri.n)>>]
        ELSE [res |-> "KeyError", ids |-> <<>>, identifiers |-> <<>>]

\* collect_data(which): the list of containers, by identity, and the list
\* of their identifiers
collect_data(which) ==
    LET ri == PyInt(which)
    IN  IF IsStr(which, MERGED)
        THEN [res |-> "ok", ids |-> <<merged_data>>, identifiers |-> <<StrTok(MERGED)>>]
        ELSE IF IsStr(which, ALL_RUNS)
        THEN [res |-> "ok", ids |-> Values(data_per_run),
              identifiers |-> RunKeys(data_per_run)]
        ELSE IF IsStr(which, ALL)
        THEN [res |-> "ok", ids |-> Append(Values(data_per_run), merged_data),
              identifiers |-> Append(RunKeys(data_per_run), StrTok(MERGED))]
        ELSE IF ~ri.ok THEN [res |-> "fatal", ids |-> <<>>, identifiers |-> <<>>]
        ELSE IF HasKey(data_per_run, ri.n)
        THEN [res |-> "ok", ids |-> <<Get(data_per_run, ri.n)>>,
              identifiers |-> <<IntTok(ri.n)>>]
        ELSE [res |-> "KeyError", ids |-> <<>>, identifiers |-> <<>>]

\* collect_data(which, return_identifier): the data, and the identifiers
\* with it when they are asked for
CollectData(which, return_identifier) ==
    /\ Finished
    /\ \E r \in {collect_data(which)} :
           /\ last' = [Call("collect_data", which, r.res)
                          EXCEPT !.ids = r.ids,
                                 !.identifiers = IF return_identifier THEN r.identifiers
                                                 ELSE <<>>,
                                 !.arg = IF return_identifier THEN "return_identifier"
                                         ELSE "none"]
           /\ terminated' = (r.res = "fatal")
           /\ UNCHANGED phase
    /\ UNCHANGED <<userinfo, output_filename, active, warnings, data, disk, history>>

\* get_output_path(which=which, item=item)
GetOutputPath(which, item) ==
    /\ Alive
    /\ \E r \in {CallGetOutputPath(FALSE, which, item, output_filename,
                                   data_write_config)} :
           /\ last' = [Call("get_output_path", which, r.res)
                          EXCEPT !.item = item, !.paths = r.paths,
                                 !.auto = (output_filename = AUTO),
                                 !.before =
                                     IF /\ last.op = "get_output_path"
                                        /\ last.which = which /\ last.item = item
                                     THEN [res |-> last.res, paths |-> last.paths,
                                           auto |-> last.auto]
                                     ELSE NoCall]
           /\ output_filename' = r.fname
           /\ terminated' = (r.res = "fatal")
           /\ UNCHANGED phase
    /\ UNCHANGED <<userinfo, active, warnings, data, disk, history>>

\* ----------------------------------------------------------------- writes
WriteFile(dsk, path, content) ==
    {f \in dsk : f.path # path} \cup {[path |-> path, data |-> content]}

RECURSIVE WriteItems(_, _, _, _, _)
\* DataItemContainer.write(path, item=None): every item whose write_to_disk
\* is set goes to the path with the suffix of the item
WriteItems(dsk, path, content, cfg, i) ==
    IF i > Len(cfg) THEN dsk
    ELSE WriteItems(IF cfg[i].v.write_to_disk
                    THEN WriteFile(dsk, insert_suffix_before_extension(path, cfg[i].v.suffix),
                                   content)
                    ELSE dsk,
                    path, content, cfg, i + 1)

ContainerWrite(dsk, path, content, cfg) == WriteItems(dsk, path, content, cfg, 1)

\* one container is written to the path gp that get_output_path returned;
\* st is the outcome so far, the disk and self.output_filename
WriteAt(st, gp, id) ==
    IF gp.res = "ok"
    THEN [res |-> "ok", fname |-> gp.fname,
          disk |-> ContainerWrite(st.disk, gp.paths[1].v, containers[id],
                                  data_write_config)]
    ELSE [res |-> gp.res, fname |-> gp.fname, disk |-> st.disk]

WriteTo(st, positional, which, id) ==
    WriteAt(st, CallGetOutputPath(positional, which, NoItem, st.fname, data_write_config), id)

\* write_data("merged"): get_output_path(which=which, item=None)
WriteMerged(st) ==
    IF merged_data = None THEN st
    ELSE WriteTo(st, FALSE, StrTok(MERGED), merged_data)

\* write_data(<anything else>): self.data_per_run[which] without int(),
\* then get_output_path(which, item=None)
WriteRun(st, which) ==
    IF ~(which.kind = "int" /\ HasKey(data_per_run, which.n))
    THEN [st EXCEPT !.res = "fatal"]
    ELSE WriteTo(st, TRUE, which, Get(data_per_run, which.n))

RECURSIVE WriteAllRuns(_, _)
WriteAllRuns(st, i) ==
    IF i > Len(data_per_run) \/ st.res # "ok" THEN st
    ELSE WriteAllRuns(WriteRun(st, IntTok(data_per_run[i].k)), i + 1)

\* write_data("all"): the merged container after the runs
WriteMergedAfter(runs) == IF runs.res # "ok" THEN runs ELSE WriteMerged(runs)

write_data(st, which) ==
    IF IsStr(which, ALL_RUNS) \/ IsStr(which, ALL)
    THEN IF IsStr(which, ALL) THEN WriteMergedAfter(WriteAllRuns(st, 1))
         ELSE WriteAllRuns(st, 1)
    ELSE IF IsStr(which, MERGED) THEN WriteMerged(st)
    ELSE WriteRun(st, which)

WriteStart == [res |-> "ok", fname |-> output_filename, disk |-> disk]

WriteData(which) ==
    /\ Finished
    /\ \E r \in {write_data(WriteStart, which)} :
           /\ last' = Call("write_data", which, r.res)
           /\ disk' = r.disk
           /\ output_filename' = r.fname
           /\ terminated' = (r.res = "fatal")
           /\ UNCHANGED phase
    /\ UNCHANGED <<userinfo, active, warnings, data, history>>

\* end_of_simulation: write_data_if_requested("all")
EndOfSimulation ==
    /\ Alive /\ phase = "initialized"
    /\ DOMAIN stored \subseteq FinalizedRuns       \* after all runs
    /\ \E r \in {IF AnyWriteToDisk(data_write_config)
                  THEN write_data(WriteStart, StrTok(ALL))
                  ELSE WriteStart} :
           /\ last' = Call("end_of_simulation", NoTok, r.res)
           /\ disk' = r.disk
           /\ output_filename' = r.fname
           /\ phase' = IF r.res = "fatal" THEN phase ELSE "ended"
           /\ terminated' = (r.res = "fatal")
    /\ UNCHANGED <<userinfo, active, warnings, data, history>>

\* ------------------------------------ ActorOutputRoot, ActorOutputCppImage
\* store_data does nothing and returns
base_store_data_silent(which, arg) == "ok"

\* ActorOutputBase.store_data, which neither class overrides
base_store_data(which, arg) == "NotImplementedError"

BaseStoreData(which, arg) ==
    /\ Alive /\ cls \in BaseClasses
    /\ last' = [Call("store_data", which, base_store_data(which, arg))
                   EXCEPT !.arg = arg.type]
    /\ UNCHANGED <<userinfo, output_filename, active, warnings, data, disk, phase,
                   terminated, history>>

\* end_of_run, the merge path: ActorOutputBase and the two classes define
\* no end_of_run and no merge method; the call is answered by the not
\* implemented signal the specification requires
base_end_of_run(run_index) == "NotImplementedError"

BaseEndOfRun(run_index) ==
    /\ Alive /\ cls \in BaseClasses
    /\ last' = Call("end_of_run", IntTok(run_index), base_end_of_run(run_index))
    /\ UNCHANGED <<userinfo, output_filename, active, warnings, data, disk, phase,
                   terminated, history>>

\* set_write_to_disk("all", value): the flag of every slot
set_write_to_disk_all(cfg, value) ==
    [i \in 1..Len(cfg) |->
        [k |-> cfg[i].k, v |-> [cfg[i].v EXCEPT !.write_to_disk = value]]]

\* the write flags are left as they are
root_initialize_config_unchanged(fname, cfg) == cfg

\* ActorOutputRoot.initialize: without a filename nothing is to be written
root_initialize_config(fname, cfg) ==
    IF fname = <<>> \/ fname = NoneVal THEN set_write_to_disk_all(cfg, FALSE) ELSE cfg

\* initialize: ActorOutputRoot overrides it, ActorOutputCppImage inherits
\* ActorOutputBase.initialize
BaseInitialize ==
    /\ Alive /\ cls \in BaseClasses /\ phase = "created"
    /\ \E cfg \in {IF cls = "ActorOutputRoot"
                   THEN root_initialize_config(output_filename, data_write_config)
                   ELSE data_write_config} :
         \E ini \in {initialize_output_filename(output_filename, cfg)} :
           /\ data_write_config' = cfg
           /\ output_filename' = ini.fname
           /\ phase' = IF ini.res = "fatal" THEN phase ELSE "initialized"
           /\ terminated' = (ini.res = "fatal")
           /\ last' = [Call("initialize", NoTok, ini.res) EXCEPT !.val = data_write_config]
    /\ UNCHANGED <<cls, keep_data_in_memory, keep_data_per_run, auto_merge,
                   can_be_deactivated, active, warnings, data, disk, history>>

\* `which` is passed on to ActorOutputBase.get_output_path
root_get_output_path_forwarding(which, item, fname, cfg) ==
    BaseGetOutputPath(which, NoArg, fname, cfg)

\* ActorOutputRoot.get_output_path(*args, **kwargs) and the same method of
\* ActorOutputCppImage: super().get_output_path("merged")
root_get_output_path(which, item, fname, cfg) ==
    BaseGetOutputPath(StrTok(MERGED), NoArg, fname, cfg)

RootGetOutputPath(which, item) ==
    /\ Alive /\ cls \in BaseClasses
    /\ \E r \in {root_get_output_path(which, item, output_filename, data_write_config)} :
           /\ last' = [Call("get_output_path", which, r.res)
                          EXCEPT !.item = item, !.paths = r.paths,
                                 !.auto = (output_filename = AUTO)]
           /\ output_filename' = r.fname
           /\ terminated' = (r.res = "fatal")
           /\ UNCHANGED phase
    /\ UNCHANGED <<userinfo, active, warnings, data, disk, history>>

\* ActorOutputBase.write_data_if_requested: write_data, which neither class
\* overrides, is called if a slot has write_to_disk set
BaseWriteDataIfRequested(which) ==
    /\ Alive /\ cls \in BaseClasses
    /\ last' = Call("write_data_if_requested", which,
                    IF AnyWriteToDisk(data_write_config) THEN "NotImplementedError"
                    ELSE "ok")
    /\ UNCHANGED <<userinfo, output_filename, active, warnings, data, disk, phase,
                   terminated, history>>

\* ---------------------------------------------------------- specification
\* The engine drives one simulation: initialize, then store_data and
\* end_of_run for the runs (a run is not revisited once finalized), then
\* end_of_simulation after all runs, then close.  Analysis code queries the
\* output once the simulation has ended.
RunTokens   == {IntTok(r) : r \in Runs} \cup {StrTok(IntToStr(r)) : r \in Runs}
StoreTokens == RunTokens \cup {StrTok(ALL), StrTok(ALL_RUNS), StrTok(BOGUS)}

Next ==
    \/ Initialize
    \/ \E which \in StoreTokens, raw \in RawPayloads : StoreData(which, RawArg(raw))
    \/ \E run_index \in Runs : EndOfRun(run_index)
    \/ EndOfSimulation
    \/ Close
    \/ \E which \in Tokens : GetData(which)
    \/ \E which \in Tokens, return_identifier \in BOOLEAN :
           CollectData(which, return_identifier)
    \/ \E which \in Tokens : Finished /\ GetOutputPath(which, NoItem)
    \/ \E which \in Tokens : WriteData(which)

Spec == Init /\ [][Next]_vars

\* The runs of a simulation before end_of_simulation, with everything an
\* actor may store: into the merged data as well, and containers as well as
\* raw data
StoreArgs == {RawArg(p) : p \in RawPayloads} \cup {ContainerArg(Vec(1))}

StoreSpecTokens == {IntTok(r) : r \in Runs}
                       \cup {StrTok(IntToStr(0)), StrTok(MERGED), StrTok(BOGUS)}

\* nothing is written or closed here: the settings for that are left at
\* their defaults
StoreInit ==
    /\ Init
    /\ keep_data_in_memory = TRUE
    /\ data_write_config = SingleItemConfig(TRUE)

StoreNext ==
    \/ Initialize
    \/ \E which \in StoreSpecTokens, arg \in StoreArgs : StoreData(which, arg)
    \/ \E run_index \in Runs : CreateEmptyImage(run_index)
    \/ \E run_index \in Runs : EndOfRun(run_index)

StoreSpec == StoreInit /\ [][StoreNext]_vars

\* The "active" user info of an output, set by the user at any time
ActiveNext ==
    \/ AllowDeactivation
    \/ \E value \in ActiveValues : SetActive(value)
    \/ Initialize

ActiveSpec == Init /\ [][ActiveNext]_vars

\* Path derivation alone, for user-set filenames and larger run indices
PathRuns   == {0, 3, 10, 123, 9999, 10000}
PathTokens == {IntTok(r) : r \in PathRuns} \cup {StrTok(IntToStr(3))}
                  \cup {StrTok(MERGED), StrTok(BOGUS)}
Items      == {NoItem, AllItem, IntTok(0), StrTok(EDEP), StrTok(BOGUS)}

PathNext ==
    \/ Initialize
    \/ \E which \in PathTokens, item \in Items : GetOutputPath(which, item)

PathSpec == PathInit /\ [][PathNext]_vars

\* An ActorOutputRoot or ActorOutputCppImage through its life
BaseNext ==
    \/ BaseInitialize
    \/ \E which \in PathTokens, item \in Items : RootGetOutputPath(which, item)
    \/ BaseWriteDataIfRequested(StrTok(ALL))
    \/ \E which \in StoreSpecTokens, arg \in StoreArgs : BaseStoreData(which, arg)
    \/ \E run_index \in Runs : BaseEndOfRun(run_index)

BaseSpec == BaseInit /\ [][BaseNext]_vars

\* ----------------------------------------------------------------- claims
ZeroVec == [i \in 1..VecLen |-> 0]

RECURSIVE SumStored(_)
\* elementwise sum of the payloads stored for a list of runs
SumStored(runs) ==
    IF Len(runs) = 0 THEN ZeroVec
    ELSE VecAdd(SumStored(SubSeq(runs, 1, Len(runs) - 1)), stored[runs[Len(runs)]])

Running == phase \in {"initialized", "ended"}
AllStoredFinalized == DOMAIN stored \subseteq FinalizedRuns

\* C1: with auto_merge=True and keep_data_per_run=False, once store_data and
\* end_of_run have been called for every run, the payload of merged_data is
\* the elementwise sum of the payloads stored for the runs, and data_per_run
\* has no entry for a finalized run.
C1_MergedIsSumOfRuns ==
    (/\ auto_merge /\ ~keep_data_per_run /\ ~merged_stored /\ Running
     /\ Len(finalized) > 0 /\ AllStoredFinalized)
    => /\ merged_data # None
       /\ containers[merged_data] = SumStored(finalized)
       /\ \A r \in FinalizedRuns : ~HasKey(data_per_run, r)

C1_Witness ==
    /\ auto_merge /\ ~keep_data_per_run /\ phase = "initialized"
    /\ Len(finalized) = MaxRun + 1
    /\ last.op = "end_of_run" /\ last.res = "ok"
    /\ stored[0] = Vec(1) /\ stored[1] = MixedVec
    /\ merged_data # None
    /\ \A i \in 1..VecLen : containers[merged_data][i] >= 2
    /\ data_per_run = <<>>

\* C2: a run finalized with keep_data_per_run=True is retained verbatim:
\* data_per_run[r] holds the payload that was stored for run r at every
\* later state, whether auto_merge is False or True.
C2_RetainedVerbatim ==
    (keep_data_per_run /\ Running)
    => \A r \in FinalizedRuns :
          /\ HasKey(data_per_run, r)
          /\ containers[Get(data_per_run, r)] = stored[r]

\* C3: with keep_data_per_run=True and auto_merge=False, after store_data
\* and end_of_run for the runs, merged_data is still None and data_per_run[r]
\* holds the payload stored for each run r.
C3_RetainedAndUnmerged ==
    (keep_data_per_run /\ ~auto_merge /\ ~merged_stored /\ Running)
    => /\ merged_data = None
       /\ \A r \in FinalizedRuns :
             /\ HasKey(data_per_run, r)
             /\ containers[Get(data_per_run, r)] = stored[r]

C3_Witness ==
    /\ keep_data_per_run /\ ~auto_merge /\ phase = "initialized"
    /\ Len(finalized) = MaxRun + 1
    /\ last.op = "end_of_run" /\ last.res = "ok"
    /\ merged_data = None
    /\ containers[Get(data_per_run, 0)] = Vec(1)
    /\ containers[Get(data_per_run, 1)] = MixedVec

\* C4: the configuration keep_data_per_run=False with auto_merge=False is
\* flagged: no run is dropped from data_per_run and left unmerged by
\* end_of_run without a warning having been emitted.
C4_DroppedUnmergedIsFlagged ==
    (~keep_data_per_run /\ ~auto_merge /\ Len(finalized) > 0) => warnings # {}

\* the path get_output_path(which=which, item=None) gives in this state
PathOf(which) ==
    ContainerGetOutputPath(which, NoItem, output_filename, data_write_config).paths[1].v

OnDisk(path, content) == \E f \in disk : f.path = path /\ f.data = content

\* C5: end_of_simulation calls write_data_if_requested("all"): if a slot of
\* data_write_config has write_to_disk set, it completes having written
\* every container retained in data_per_run to its run-qualified path and
\* then the merged container; if no slot has it set, nothing is written.
C5_EndOfSimulationWritesAll ==
    (last.op = "end_of_simulation")
    => IF AnyWriteToDisk(data_write_config)
       THEN /\ last.res = "ok"
            /\ \A i \in 1..Len(data_per_run) :
                  OnDisk(PathOf(IntTok(data_per_run[i].k)), containers[data_per_run[i].v])
            /\ merged_data # None
                  => OnDisk(PathOf(StrTok(MERGED)), containers[merged_data])
       ELSE disk = {}

\* C6: close() with keep_data_in_memory=False leaves data_per_run empty and
\* merged_data None, and they stay so unless data is stored again; close()
\* with keep_data_in_memory=True leaves data_per_run and merged_data as
\* they were.
C6_CloseDropsOrKeeps ==
    [][/\ (phase = "ended" /\ phase' = "closed")
            => IF keep_data_in_memory
               THEN UNCHANGED <<data_per_run, merged_data, containers>>
               ELSE data_per_run' = <<>> /\ merged_data' = None
       /\ (phase = "closed" /\ ~keep_data_in_memory /\ last'.op # "store_data")
            => (data_per_run' = <<>> /\ merged_data' = None)]_vars

C6_Witness ==
    /\ phase = "closed" /\ ~keep_data_in_memory
    /\ auto_merge /\ keep_data_per_run /\ Len(finalized) = MaxRun + 1
    /\ last.op = "collect_data" /\ last.which = StrTok(ALL)
    /\ data_per_run = <<>> /\ merged_data = None

\* C7: after close() with keep_data_in_memory=False every get_data call, for
\* "merged" as for a run index, fails; none returns a value or None.
C7_GetDataFailsAfterDrop ==
    (phase = "closed" /\ ~keep_data_in_memory /\ last.op = "get_data")
    => last.res \notin {"ok", "None"}

\* C8: a `which` that is neither a known literal nor parseable as an integer
\* ("bogus"), passed to get_output_path (item=None), collect_data or
\* store_data, takes the fatal path, and the failing call leaves
\* data_per_run and merged_data as they were.
C8_BogusIsFatal ==
    [][(/\ ~terminated
        /\ last'.op \in {"get_output_path", "collect_data", "store_data"}
        /\ last'.which = StrTok(BOGUS) /\ last'.item = NoItem)
       => (/\ last'.res = "fatal" /\ terminated'
           /\ UNCHANGED <<data_per_run, merged_data, containers>>)]_vars

\* C9: a token that store_data accepts for run r (an integer or a string
\* int() parses) addresses the container of run r in get_data, collect_data,
\* get_output_path and write_data: none of them fails on it while the run
\* is stored.
C9_UniformRunAddressing ==
    (/\ last.op \in {"get_data", "collect_data", "get_output_path", "write_data"}
     /\ PyInt(last.which).ok
     /\ HasKey(data_per_run, PyInt(last.which).n))
    => last.res = "ok"

Pad4(n) == ZeroPad(IntToStr(n), 4)

\* C10: for a run index r in 0..9999, get_output_path(r, item=None) on the
\* base filename "dose.mhd" yields "dose_runNNNN.mhd", NNNN being r padded
\* with zeros to four digits ("dose_run0003.mhd" for r = 3).
C10_RunSuffixZeroPadded ==
    (/\ last.op = "get_output_path" /\ last.item = NoItem
     /\ last.which.kind = "int" /\ last.which.n \in 0..9999
     /\ output_filename = DoseMhd)
    => /\ last.res = "ok"
       /\ last.paths[1].v = OutputDir \o <<"d", "o", "s", "e", "_", "r", "u", "n">>
                                \o Pad4(last.which.n) \o <<".", "m", "h", "d">>
\* C11: get_output_path with a run index and an item composes the suffixes
\* in the order base filename, run suffix, item suffix, the extension kept:
\* for "dose.mhd", run r and the item with suffix "edep" the path is
\* dose_<run suffix of r>_edep.mhd.
C11_RunThenItemSuffix ==
    (/\ last.op = "get_output_path" /\ last.item = StrTok(EDEP)
     /\ last.which.kind = "int"
     /\ HasSuffixForItem(last.item, data_write_config)
     /\ output_filename = DoseMhd)
    => /\ last.res = "ok"
       /\ last.paths[1].v = OutputDir \o <<"d", "o", "s", "e", "_">>
                                \o RunSuffix(last.which.n) \o <<"_">> \o EDEP
                                \o <<".", "m", "h", "d">>
\* C12: path derivation is idempotent: get_output_path("merged", item=None)
\* called twice with no other operation in between returns the same paths
\* both times, also when the first call resolves output_filename from "auto".
C12_PathDerivationIdempotent ==
    (/\ last.op = "get_output_path" /\ last.which = StrTok(MERGED)
     /\ last.item = NoItem /\ last.before # NoCall)
    => /\ last.res = last.before.res
       /\ last.paths = last.before.paths

C12_Witness ==
    /\ last.op = "get_output_path" /\ last.which = StrTok(MERGED)
    /\ last.item = NoItem /\ last.res = "ok"
    /\ last.before # NoCall /\ last.before.auto /\ last.before.res = "ok"
    /\ ~last.auto /\ output_filename = AutoFilename
    /\ last.paths[1].v = OutputDir \o AutoFilename
\* the run indices of data_per_run with the payload each container holds,
\* and the payload merged_data holds
RunPayloads ==
    [i \in 1..Len(data_per_run) |->
        [k |-> data_per_run[i].k, v |-> containers[data_per_run[i].v]]]
MergedPayload == IF merged_data = None THEN <<>> ELSE <<containers[merged_data]>>

\* C13: store_data(r, data) on a run index that already holds a container
\* replaces that entry with the new data, without error and without
\* merging, and leaves merged_data and the entries of the other runs as
\* they were; store_data("merged", data) replaces merged_data and leaves
\* data_per_run as it was.
C13_StoreReplaces ==
    [][(last'.op = "store_data" /\ (IsStr(last'.which, MERGED) \/ PyInt(last'.which).ok))
       => /\ last'.res = "ok"
          /\ IF IsStr(last'.which, MERGED)
             THEN /\ MergedPayload' = <<last'.val>>
                  /\ RunPayloads' = RunPayloads
             ELSE /\ MergedPayload' = MergedPayload
                  /\ HasKey(data_per_run', PyInt(last'.which).n)
                  /\ containers'[Get(data_per_run', PyInt(last'.which).n)] = last'.val
                  /\ HasKey(data_per_run, PyInt(last'.which).n)
                        => Len(RunPayloads') = Len(RunPayloads)
                  /\ \A i \in 1..Len(RunPayloads) :
                        RunPayloads[i].k # PyInt(last'.which).n
                            => RunPayloads'[i] = RunPayloads[i]]_vars

\* run 0 was stored before run 1 and is stored again (its entry is still
\* the first), while run 1 and the merged data hold what they held
C13_Witness ==
    /\ last.op = "store_data" /\ last.which = IntTok(0) /\ last.res = "ok"
    /\ last.val = MixedVec
    /\ RunPayloads = <<[k |-> 0, v |-> MixedVec], [k |-> 1, v |-> Vec(1)]>>
    /\ merged_stored /\ MergedPayload = <<Vec(1)>>

\* C14: store_data wraps raw data into the container class only if it is
\* not wrapped already: given an instance of the container class, it stores
\* that container and constructs no new one.
C14_ContainerIsNotRewrapped ==
    (last.op = "store_data" /\ last.res = "ok" /\ last.arg = "container")
    => ~last.constructed

\* C20: create_empty_image(run_index) constructs a container only if
\* data_per_run has no entry for run_index, and otherwise keeps the entry
\* and has its container allocate the image; either way merged_data and
\* the entries of the other run indices are as they were.
C20_CreateEmptyImageIsLazy ==
    [][(last'.op = "create_empty_image")
       => /\ last'.res = "ok"
          /\ last'.constructed = ~HasKey(data_per_run, last'.which.n)
          /\ HasKey(data_per_run', last'.which.n)
          /\ HasKey(data_per_run, last'.which.n) => Len(RunPayloads') = Len(RunPayloads)
          /\ ~HasKey(data_per_run, last'.which.n)
                => Len(RunPayloads') = Len(RunPayloads) + 1
          /\ \A i \in 1..Len(RunPayloads) :
                RunPayloads[i].k # last'.which.n => RunPayloads'[i] = RunPayloads[i]
          /\ MergedPayload' = MergedPayload]_vars

\* the image of run 1 is created after run 1 was stored, with run 0 merged
\* and retained
C20_Witness ==
    /\ last.op = "create_empty_image" /\ last.which = IntTok(1)
    /\ ~last.constructed
    /\ Len(RunPayloads) = 2 /\ RunPayloads[1] = [k |-> 0, v |-> MixedVec]
    /\ RunPayloads[2].k = 1
    /\ finalized = <<0>> /\ MergedPayload = <<MixedVec>>
\* C15: collect_data("all", return_identifier=True) returns two lists of
\* equal length: the containers of data_per_run in insertion order and then
\* merged_data, and the run indices in the same order and then "merged";
\* "all_runs" returns the same without the merged element, "merged" only
\* the merged element.
C15_CollectDataParallelLists ==
    (last.op = "collect_data" /\ last.arg = "return_identifier")
    => /\ IsStr(last.which, ALL)
          => /\ last.res = "ok"
             /\ Len(last.ids) = Len(last.identifiers)
             /\ Len(last.ids) = Len(data_per_run) + 1
             /\ \A i \in 1..Len(data_per_run) :
                   /\ last.ids[i] = data_per_run[i].v
                   /\ last.identifiers[i] = IntTok(data_per_run[i].k)
             /\ last.ids[Len(last.ids)] = merged_data
             /\ last.identifiers[Len(last.ids)] = StrTok(MERGED)
       /\ IsStr(last.which, ALL_RUNS)
          => /\ last.res = "ok"
             /\ Len(last.ids) = Len(last.identifiers)
             /\ Len(last.ids) = Len(data_per_run)
             /\ \A i \in 1..Len(data_per_run) :
                   /\ last.ids[i] = data_per_run[i].v
                   /\ last.identifiers[i] = IntTok(data_per_run[i].k)
       /\ IsStr(last.which, MERGED)
          => /\ last.res = "ok"
             /\ last.ids = <<merged_data>>
             /\ last.identifiers = <<StrTok(MERGED)>>

\* both runs are retained, in the order 1, 0 they were stored in, and merged
C15_Witness ==
    /\ last.op = "collect_data" /\ last.arg = "return_identifier"
    /\ IsStr(last.which, ALL) /\ last.res = "ok"
    /\ last.identifiers = <<IntTok(1), IntTok(0), StrTok(MERGED)>>
    /\ Len(last.ids) = 3 /\ merged_data # None
    /\ containers[last.ids[1]] = stored[1]
\* C16: an item identifier that is not a registered slot (an unrecognized
\* string or an out-of-range index) yields no suffix and is no error: the
\* path derived for it is the unmodified base path.
C16_UnknownItemIsWildcard ==
    (/\ last.op = "get_output_path" /\ last.which = StrTok(MERGED)
     /\ last.item \notin {NoItem, AllItem}
     /\ ~HasSuffixForItem(last.item, data_write_config)
     /\ output_filename = DoseMhd)
    => /\ last.res = "ok"
       /\ last.paths[1].v = OutputDir \o DoseMhd
\* "edep_from_doseactor_dose.mhd": output "edep" of the DoseActor "dose"
C17_Derived ==
    <<"e", "d", "e", "p", "_", "f", "r", "o", "m", "_",
      "d", "o", "s", "e", "a", "c", "t", "o", "r", "_",
      "d", "o", "s", "e", ".", "m", "h", "d">>

\* C17: initialize, or get_output_path (item=None) by its first step,
\* resolves output_filename: empty or None with write_to_disk set for a
\* slot is a fatal configuration error; "auto" is replaced by
\* "{name}_from_{actor type}_{actor name}.{default suffix}"; any other
\* filename is left as it is.
C17_FilenameResolution ==
    [][(\/ last'.op = "initialize"
        \/ last'.op = "get_output_path" /\ last'.item = NoItem)
       => IF output_filename \in {<<>>, NoneVal} /\ AnyWriteToDisk(data_write_config)
          THEN last'.res = "fatal" /\ terminated' /\ output_filename' = output_filename
          ELSE IF output_filename = AUTO
          THEN /\ output_filename' = C17_Derived
               /\ last'.op = "initialize" => (last'.res = "ok" /\ ~terminated')
          ELSE /\ output_filename' = output_filename
               /\ last'.op = "initialize" => (last'.res = "ok" /\ ~terminated')]_vars

C17_Witness ==
    /\ last.op = "initialize" /\ last.res = "ok" /\ phase = "initialized"
    /\ output_filename = C17_Derived
    /\ AnyWriteToDisk(data_write_config)
\* C18: assigning a false value to "active" on an output that cannot be
\* deactivated emits a warning and does not fail; on such an output active
\* is True after any sequence of assignments, and on an output that can be
\* deactivated it is bool of the value assigned last.
C18_ActiveIsGuarded ==
    /\ ~can_be_deactivated => active = TRUE
    /\ last.op = "active"
          => /\ last.res = "ok" /\ ~terminated
             /\ IF can_be_deactivated
                THEN active = (last.which \in {BoolTok(TRUE), IntTok(1), StrTok(<<"x">>)})
                ELSE last.which \in {BoolTok(FALSE), IntTok(0), StrTok(<<>>), StrTok(NoneVal)}
                         => "cannot be deactivated" \in warnings

\* 0 was assigned on an output that cannot be deactivated and was refused
\* with a warning; later the output was made deactivatable and None assigned
C18_Witness ==
    /\ can_be_deactivated /\ last.op = "active" /\ last.which = StrTok(NoneVal)
    /\ active = FALSE /\ "cannot be deactivated" \in warnings
RECURSIVE SumOfRuns(_)
\* elementwise sum of the payloads stored for a set of runs, in no order
SumOfRuns(S) ==
    IF S = {} THEN ZeroVec
    ELSE VecAdd(stored[CHOOSE r \in S : TRUE],
                SumOfRuns(S \ {CHOOSE r \in S : TRUE}))

\* C21: with auto_merge=True and every stored run finalized once, after
\* each end_of_run the payload of merged_data is the sum of exactly the runs
\* finalized so far; it depends on which runs are finalized and not on the
\* order they were finalized in.
C21_MergedIsOrderIndependent ==
    (auto_merge /\ ~merged_stored /\ Running /\ Len(finalized) > 0)
    => /\ merged_data # None
       /\ containers[merged_data] = SumOfRuns(FinalizedRuns)

\* run 1 was finalized before run 0
C21_Witness ==
    /\ auto_merge /\ phase = "initialized"
    /\ last.op = "end_of_run" /\ last.res = "ok"
    /\ Len(finalized) = MaxRun + 1 /\ finalized[1] = 1 /\ finalized[2] = 0
    /\ stored[0] = Vec(1) /\ stored[1] = MixedVec
    /\ merged_data # None
    /\ containers[merged_data][1] = 4
\* what get_output_path("merged") of ActorOutputBase gives in this state
MergedPath ==
    BaseGetOutputPath(StrTok(MERGED), NoArg, output_filename, data_write_config)

\* C22: get_output_path of ActorOutputRoot and ActorOutputCppImage ignores
\* its arguments: for any `which` (a run index, "merged", an invalid token)
\* and item the result is that of get_output_path("merged"), the unqualified
\* path with no run suffix, and `which` is never a reason to fail.
C22_RootPathIgnoresArguments ==
    (cls \in BaseClasses /\ last.op = "get_output_path")
    => /\ last.res = MergedPath.res
       /\ last.paths = MergedPath.paths
       /\ last.res = "ok" => last.paths[1].v = OutputDir \o output_filename
       /\ last.res = "fatal"
             => /\ output_filename \in {<<>>, NoneVal}
                /\ AnyWriteToDisk(data_write_config)

C22_Witness ==
    /\ cls = "ActorOutputCppImage"
    /\ last.op = "get_output_path" /\ last.which = StrTok(BOGUS)
    /\ last.item = StrTok(EDEP) /\ last.res = "ok"
    /\ last.paths[1].v = OutputDir \o DoseMhd

AllSlotsUnwritten(cfg) == \A i \in 1..Len(cfg) : ~cfg[i].v.write_to_disk

\* C23: ActorOutputRoot.initialize() with output_filename empty or None sets
\* write_to_disk to False for every slot before the filename is resolved:
\* it completes without the fatal error, and a later
\* write_data_if_requested writes nothing; with any other output_filename
\* the write flags are left as they are.
C23_RootInitializeDisablesWriting ==
    [][/\ (cls = "ActorOutputRoot" /\ last'.op = "initialize")
            => IF output_filename \in {<<>>, NoneVal}
               THEN /\ AllSlotsUnwritten(data_write_config')
                    /\ last'.res = "ok" /\ ~terminated' /\ phase' = "initialized"
                    /\ output_filename' = output_filename
               ELSE data_write_config' = data_write_config
       /\ (/\ cls = "ActorOutputRoot" /\ phase = "initialized"
           /\ output_filename \in {<<>>, NoneVal}
           /\ last'.op = "write_data_if_requested")
            => (last'.res = "ok" /\ disk' = {})]_vars

\* initialize found the first slot written and no filename
C23_Witness ==
    /\ cls = "ActorOutputRoot" /\ last.op = "initialize" /\ last.res = "ok"
    /\ output_filename = NoneVal /\ phase = "initialized"
    /\ last.val = TwoItemConfig(TRUE)
    /\ data_write_config = TwoItemConfig(FALSE)
====
